---- MODULE Spec2Model ----
(***************************************************************************)
(* A model of the ride-sharing analysis scripts: the bin assigner of       *)
(* preprocessing/transform.py, the two heatmap matrix builders             *)
(* (analysis_01.create_heatmap_matrix, analysis_03.create_heatmap_matrix), *)
(* the day-of-week/hour pipeline of analysis_01.analyze_heatmap, the       *)
(* preprocessing functions and analyses of analysis_02 and analysis_03,    *)
(* the two aggregations, interleaved calls of the 7 x 24 builder, and the  *)
(* per-category box plot of analysis_02.                                   *)
(*                                                                         *)
(* Data frames are sequences of records (row order is kept, because the    *)
(* code's pivot depends on it); a column's dtype is kept where the code's  *)
(* behaviour depends on it (the strict vertical concat of analysis_03).    *)
(* Shares are exact fractions [num, den] in lowest terms.                  *)
(***************************************************************************)
EXTENDS Integers, Sequences, FiniteSets, TLC

VARIABLES
    value,        \* transform: the count handed to the bin assigner
    threshold,    \* transform: the threshold argument
    site,         \* transform: which binning expression produced `label`
    label,        \* transform: the bin label produced (NoLabel before the call)
    script,       \* which analysis module or function is being run
    agg_out,      \* analysis_01: the aggregate table (user_type, dow, hour, ride_count, share)
    counts,       \* analysis_03: the counts table (passengers_bin, spots_bin, n)
    result,       \* the outcome of the last create_heatmap_matrix call
    history,      \* analysis_01: the history table handed to analyze_heatmap
    mat_staff,    \* analysis_01.analyze_heatmap: mat_staff
    mat_student,  \* analysis_01.analyze_heatmap: mat_student
    trip,         \* analysis_03: the trip table handed to build_ride_features
    prep_df,      \* the local df of the preprocessing function being run
    prep_pc,      \* the position reached in the preprocessing function
    call_pc,      \* per create_heatmap_matrix call: the statement reached
    call_local    \* per create_heatmap_matrix call: its local frames

vars == <<value, threshold, site, label, script, agg_out, counts, result,
          history, mat_staff, mat_student, trip, prep_df, prep_pc,
          call_pc, call_local>>

binVars == <<value, threshold, site, label>>
gridVars == <<script, agg_out, counts, result>>
heatmapVars == <<history, mat_staff, mat_student>>
prepVars == <<trip, prep_df, prep_pc>>
callVars == <<call_pc, call_local>>

-----------------------------------------------------------------------------
(* Bounds of the model *)

MaxValue == 12
MaxThreshold == 6

(* Program constants *)

DefaultThreshold == 5

NoLabel == ""
NoCall == [status |-> "none"]

-----------------------------------------------------------------------------
(* Decimal formatting: str(n) / cast(pl.Utf8) of an integer *)

Digit(d) ==
    CASE d = 0 -> "0" [] d = 1 -> "1" [] d = 2 -> "2" [] d = 3 -> "3"
      [] d = 4 -> "4" [] d = 5 -> "5" [] d = 6 -> "6" [] d = 7 -> "7"
      [] d = 8 -> "8" [] d = 9 -> "9"

RECURSIVE NatToStr(_)
NatToStr(n) ==
    IF n < 10 THEN Digit(n) ELSE NatToStr(n \div 10) \o Digit(n % 10)

CastUtf8(n) ==
    IF n < 0 THEN "-" \o NatToStr(0 - n) ELSE NatToStr(n)

-----------------------------------------------------------------------------
(* preprocessing/transform.py: the bin universes and the bin assigners *)

SPOTS_BINS == <<"1", "2", "3", "4", "5+">>
PASSENGERS_BINS == <<"1", "2", "3", "4", "5+">>

add_passengers_bin_gt(v, t) ==
    IF v > t THEN CastUtf8(t) \o "+" ELSE CastUtf8(v)

add_passengers_bin(v, t) ==
    IF v >= t THEN CastUtf8(t) \o "+" ELSE CastUtf8(v)

add_spots_bin_nosentinel(v, t) ==
    IF v >= t THEN CastUtf8(t) ELSE CastUtf8(v)

add_spots_bin(v, t) ==
    IF v >= t THEN CastUtf8(t) \o "+" ELSE CastUtf8(v)

(* analysis_02.preprocess_for_passengers_analysis: the inline binning *)
passengers_cat(v) ==
    IF v >= 5 THEN "5+" ELSE CastUtf8(v)

ValueInputs == (0 - 2 .. MaxValue) \cup {100}
ThresholdInputs == 1 .. MaxThreshold

InitBin ==
    /\ value \in ValueInputs
    /\ threshold \in ThresholdInputs
    /\ site = "none"
    /\ label = NoLabel
    /\ script = "transform"
    /\ agg_out = <<>>
    /\ counts = <<>>
    /\ result = NoCall
    /\ history = <<>>
    /\ mat_staff = <<>>
    /\ mat_student = <<>>
    /\ trip = <<>>
    /\ prep_df = <<>>
    /\ prep_pc = "idle"
    /\ call_pc = <<>>
    /\ call_local = <<>>

AddPassengersBin ==
    /\ label = NoLabel
    /\ label' = add_passengers_bin(value, threshold)
    /\ site' = "add_passengers_bin"
    /\ UNCHANGED <<value, threshold, gridVars, heatmapVars, prepVars, callVars>>

AddSpotsBin ==
    /\ label = NoLabel
    /\ label' = add_spots_bin(value, threshold)
    /\ site' = "add_spots_bin"
    /\ UNCHANGED <<value, threshold, gridVars, heatmapVars, prepVars, callVars>>

PassengersCat ==
    /\ label = NoLabel
    /\ threshold = DefaultThreshold
    /\ label' = passengers_cat(value)
    /\ site' = "passengers_cat"
    /\ UNCHANGED <<value, threshold, gridVars, heatmapVars, prepVars, callVars>>

NextBin ==
    \/ AddPassengersBin
    \/ AddSpotsBin
    \/ PassengersCat

SpecBin == InitBin /\ [][NextBin]_vars

-----------------------------------------------------------------------------
(* Exact fractions: a float share n / d is kept as [num, den] in lowest terms *)

RECURSIVE Gcd(_, _)
Gcd(a, b) == IF b = 0 THEN a ELSE Gcd(b, a % b)

Frac(n, d) ==
    IF n = 0 THEN [num |-> 0, den |-> 1]
    ELSE [num |-> n \div Gcd(n, d), den |-> d \div Gcd(n, d)]

Zero == Frac(0, 1)
One == Frac(1, 1)

FracAdd(x, y) == Frac(x.num * y.den + y.num * x.den, x.den * y.den)

RECURSIVE SumSeq(_)
SumSeq(s) == IF s = <<>> THEN 0 ELSE Head(s) + SumSeq(Tail(s))

RECURSIVE FracSumSeq(_)
FracSumSeq(s) == IF s = <<>> THEN Zero ELSE FracAdd(Head(s), FracSumSeq(Tail(s)))

(* The sequence of the elements of a set of integers, ascending: sort() *)
RECURSIVE SortedSeq(_)
SortedSeq(S) ==
    IF S = {} THEN <<>>
    ELSE LET m == CHOOSE x \in S : \A y \in S : x <= y
         IN <<m>> \o SortedSeq(S \ {m})

(* The distinct values of a column in order of first appearance (pivot) *)
RECURSIVE Distinct(_)
Distinct(s) ==
    IF s = <<>> THEN <<>>
    ELSE LET r == Distinct(SubSeq(s, 1, Len(s) - 1))
             x == s[Len(s)]
         IN IF \E i \in 1 .. Len(r) : r[i] = x THEN r ELSE Append(r, x)

IndexOf(s, x) == CHOOSE i \in 1 .. Len(s) : s[i] = x

Range(f) == {f[i] : i \in DOMAIN f}

-----------------------------------------------------------------------------
(* analysis_01.py: create_dow_hour_grid and create_heatmap_matrix *)

NDow == 7
NHour == 24

(* pl.DataFrame({"dow": range(7)}).join(pl.DataFrame({"hour": range(24)}), how="cross") *)
create_dow_hour_grid ==
    [k \in 1 .. NDow * NHour |->
        [dow |-> (k - 1) \div NHour, hour |-> (k - 1) % NHour]]

(* agg_out.filter(pl.col("user_type") == user_type) *)
FilterUserType(agg, user_type) ==
    SelectSeq(agg, LAMBDA r : r.user_type = user_type)

(* The keys the join keeps: how="left" keeps every key of the grid and    *)
(* no other.  The variants are how="inner" (only the keys matched) and    *)
(* how="full" (the keys of either side).                                  *)
JoinKeysOuter(grid, filtered) ==
    {<<grid[i].dow, grid[i].hour>> : i \in 1 .. Len(grid)}
        \cup {<<filtered[i].dow, filtered[i].hour>> : i \in 1 .. Len(filtered)}

JoinKeysInner(grid, filtered) ==
    {k \in {<<grid[i].dow, grid[i].hour>> : i \in 1 .. Len(grid)} :
        \E i \in 1 .. Len(filtered) :
            filtered[i].dow = k[1] /\ filtered[i].hour = k[2]}

JoinKeys(grid, filtered) ==
    {<<grid[i].dow, grid[i].hour>> : i \in 1 .. Len(grid)}

(* The value joined to grid key (dow, hour), null filled with 0.0.  The   *)
(* first match stands for aggregate_function="first"; rows of the         *)
(* aggregate whose key is not in the grid are joined to nothing.          *)
JoinedValue(filtered, dow, hour) ==
    LET hits == {i \in 1 .. Len(filtered) :
                    filtered[i].dow = dow /\ filtered[i].hour = hour}
    IN IF hits = {} THEN Zero
       ELSE filtered[CHOOSE i \in hits : \A j \in hits : i <= j].share

(* sort(["dow","hour"]), pivot(index="dow", on="hour"), sort("dow"),      *)
(* drop("dow").to_numpy(): one row per joined dow ascending, one column   *)
(* per joined hour in order of first appearance after the sort.           *)
create_heatmap_matrix(agg, user_type) ==
    LET grid == create_dow_hour_grid
        filtered == FilterUserType(agg, user_type)
        keys == JoinKeys(grid, filtered)
        dows == SortedSeq({k[1] : k \in keys})
        hours == SortedSeq({k[2] : k \in keys})
    IN [i \in 1 .. Len(dows) |->
          [j \in 1 .. Len(hours) |-> JoinedValue(filtered, dows[i], hours[j])]]

-----------------------------------------------------------------------------
(* analysis_03.py: create_heatmap_matrix.  A frame is                      *)
(* [index: the passengers_bin column, columns: the other column names,    *)
(*  dtypes: their dtypes, cells: one sequence of values per row].         *)

(* counts.pivot(values="n", index="passengers_bin", on="spots_bin",       *)
(* aggregate_function="first").fill_null(0): n is pl.len(), a UInt32, and *)
(* fill_null keeps the column's dtype.                                    *)
PivotFillNull(cnts) ==
    LET index == Distinct([i \in 1 .. Len(cnts) |-> cnts[i].passengers_bin])
        columns == Distinct([i \in 1 .. Len(cnts) |-> cnts[i].spots_bin])
        Cell(p, c) ==
            LET hits == {i \in 1 .. Len(cnts) :
                            cnts[i].passengers_bin = p /\ cnts[i].spots_bin = c}
            IN IF hits = {} THEN 0
               ELSE cnts[CHOOSE i \in hits : \A j \in hits : i <= j].n
    IN [index |-> index,
        columns |-> columns,
        dtypes |-> [j \in 1 .. Len(columns) |-> "UInt32"],
        cells |-> [i \in 1 .. Len(index) |->
                     [j \in 1 .. Len(columns) |-> Cell(index[i], columns[j])]]]

(* for b in SPOTS_BINS: if b not in pivot.columns:                        *)
(*     pivot = pivot.with_columns(pl.lit(0).alias(b))    (an Int32 column) *)
AddMissingColumns(pivot) ==
    LET missing == SelectSeq(SPOTS_BINS,
                             LAMBDA b : b \notin Range(pivot.columns))
    IN [index |-> pivot.index,
        columns |-> pivot.columns \o missing,
        dtypes |-> pivot.dtypes \o [j \in 1 .. Len(missing) |-> "Int32"],
        cells |-> [i \in 1 .. Len(pivot.index) |->
                     pivot.cells[i] \o [j \in 1 .. Len(missing) |-> 0]]]

(* missing_rows and add_rows: a frame of Python ints, so Int64 columns in *)
(* SPOTS_BINS order                                                        *)
MissingRows(pivot) ==
    SelectSeq(PASSENGERS_BINS, LAMBDA b : b \notin Range(pivot.index))

AddRows(missing_rows) ==
    [index |-> missing_rows,
     columns |-> SPOTS_BINS,
     dtypes |-> [j \in 1 .. Len(SPOTS_BINS) |-> "Int64"],
     cells |-> [i \in 1 .. Len(missing_rows) |->
                  [j \in 1 .. Len(SPOTS_BINS) |-> 0]]]

(* pl.concat([a, b], how="vertical"): a strict vstack, which raises       *)
(* unless both frames have the same column names in the same order and    *)
(* the same dtypes; the first column that differs decides the error.      *)
ConcatVertical(a, b) ==
    LET differ == {j \in 1 .. Len(a.columns) :
                      j <= Len(b.columns) =>
                          a.columns[j] # b.columns[j] \/ a.dtypes[j] # b.dtypes[j]}
        first == CHOOSE j \in differ : \A k \in differ : j <= k
    IN
    IF Len(a.columns) # Len(b.columns) THEN [status |-> "ShapeError"]
    ELSE IF differ # {}
    THEN [status |-> IF a.columns[first] # b.columns[first]
                     THEN "ShapeError" ELSE "SchemaError"]
    ELSE [status |-> "ok",
          frame |-> [index |-> a.index \o b.index,
                     columns |-> a.columns,
                     dtypes |-> a.dtypes,
                     cells |-> a.cells \o b.cells]]

(* The explicit reorder: map_elements(PASSENGERS_BINS.index) raises       *)
(* ValueError on a label that is not in the list; then sort on that       *)
(* position and select(["passengers_bin", *SPOTS_BINS]), to_numpy().      *)
Reorder(frame) ==
    IF \E i \in 1 .. Len(frame.index) : frame.index[i] \notin Range(PASSENGERS_BINS)
    THEN [status |-> "ValueError"]
    ELSE LET order == SortedSeq({IndexOf(PASSENGERS_BINS, frame.index[i]) :
                                    i \in 1 .. Len(frame.index)})
         IN [status |-> "ok",
             mat |-> [r \in 1 .. Len(order) |->
                        [j \in 1 .. Len(SPOTS_BINS) |->
                           frame.cells[IndexOf(frame.index, PASSENGERS_BINS[order[r]])]
                                      [IndexOf(frame.columns, SPOTS_BINS[j])]]]]

MatTotal(mat) == SumSeq([i \in 1 .. Len(mat) |-> SumSeq(mat[i])])

(* mat_counts / total if total > 0 else mat_counts.astype(float64).       *)
(* NormalizeByRow is the variant that divides each row by its own sum;    *)
(* NormalizeUnguarded the one that divides without the total > 0 test     *)
(* (numpy gives nan for 0 / 0, kept here as the fraction 0 / 0).          *)
NormalizeUnguarded(mat_counts) ==
    LET total == MatTotal(mat_counts)
    IN [i \in 1 .. Len(mat_counts) |->
          [j \in 1 .. Len(mat_counts[i]) |->
             IF total > 0 THEN Frac(mat_counts[i][j], total)
             ELSE [num |-> mat_counts[i][j], den |-> 0]]]

NormalizeByRow(mat_counts) ==
    [i \in 1 .. Len(mat_counts) |->
       [j \in 1 .. Len(mat_counts[i]) |->
          IF SumSeq(mat_counts[i]) > 0
          THEN Frac(mat_counts[i][j], SumSeq(mat_counts[i]))
          ELSE Zero]]

Normalize(mat_counts) ==
    LET total == MatTotal(mat_counts)
    IN [i \in 1 .. Len(mat_counts) |->
          [j \in 1 .. Len(mat_counts[i]) |->
             IF total > 0 THEN Frac(mat_counts[i][j], total)
             ELSE Frac(mat_counts[i][j], 1)]]

(* The whole function: the outcome is the matrix returned (with the       *)
(* local mat_counts it was computed from) or the exception raised.        *)
create_heatmap_matrix_03(cnts) ==
    LET pivot == AddMissingColumns(PivotFillNull(cnts))
        missing_rows == MissingRows(pivot)
        stacked == IF missing_rows # <<>>
                   THEN ConcatVertical(pivot, AddRows(missing_rows))
                   ELSE [status |-> "ok", frame |-> pivot]
    IN IF stacked.status # "ok" THEN [status |-> stacked.status]
       ELSE LET ordered == Reorder(stacked.frame)
            IN IF ordered.status # "ok" THEN [status |-> ordered.status]
               ELSE [status |-> "ok",
                     mat_counts |-> ordered.mat,
                     mat |-> Normalize(ordered.mat)]

-----------------------------------------------------------------------------
(* The matrix builders called on aggregate tables (SpecGrid).  The tables *)
(* are sequences of distinct rows drawn from the candidate rows below;    *)
(* no two candidate rows share a key, as after group_by.                  *)

MaxAggRows == 2
MaxCountRows == 6

UserTypeArgs == {"staff", "student", "guest"}

AggRowInputs ==
    {[user_type |-> u, dow |-> d, hour |-> h, share |-> Frac(d + 1, h + 8)] :
        u \in {"staff", "student"}, d \in {0, 6, 7}, h \in {0, 13, 24}}

CountRowInputs ==
    {[passengers_bin |-> "1", spots_bin |-> "1", n |-> 3],
     [passengers_bin |-> "2", spots_bin |-> "2", n |-> 1],
     [passengers_bin |-> "3", spots_bin |-> "5+", n |-> 2],
     [passengers_bin |-> "4", spots_bin |-> "1", n |-> 1],
     [passengers_bin |-> "5+", spots_bin |-> "3", n |-> 4],
     [passengers_bin |-> "1", spots_bin |-> "3", n |-> 2],
     [passengers_bin |-> "0", spots_bin |-> "1", n |-> 1],
     [passengers_bin |-> "2", spots_bin |-> "0", n |-> 5]}

(* Counts whose spots_bin is outside SPOTS_BINS: with all five passenger *)
(* bins present they give an all-zero count matrix.                       *)
ZeroColumnRowInputs ==
    {[passengers_bin |-> p, spots_bin |-> "0", n |-> 1] :
        p \in {"1", "2", "3", "4", "5+"}}

DistinctSeqs(S, max) ==
    UNION {{t \in [1 .. n -> S] : \A i, j \in 1 .. n : t[i] = t[j] => i = j} :
              n \in 0 .. max}

InitGrid ==
    /\ \/ /\ script = "analysis_01"
          /\ agg_out \in DistinctSeqs(AggRowInputs, MaxAggRows)
          /\ counts = <<>>
       \/ /\ script = "analysis_03"
          /\ agg_out = <<>>
          /\ counts \in DistinctSeqs(CountRowInputs, MaxCountRows)
       \/ /\ script = "analysis_03"
          /\ agg_out = <<>>
          /\ counts \in DistinctSeqs(ZeroColumnRowInputs, MaxCountRows)
    /\ result = NoCall
    /\ value = 0
    /\ threshold = DefaultThreshold
    /\ site = "none"
    /\ label = NoLabel
    /\ history = <<>>
    /\ mat_staff = <<>>
    /\ mat_student = <<>>
    /\ trip = <<>>
    /\ prep_df = <<>>
    /\ prep_pc = "idle"
    /\ call_pc = <<>>
    /\ call_local = <<>>

CreateHeatmapMatrix01 ==
    /\ script = "analysis_01"
    /\ result = NoCall
    /\ \E user_type \in UserTypeArgs :
         result' = [status |-> "ok",
                    user_type |-> user_type,
                    mat |-> create_heatmap_matrix(agg_out, user_type)]
    /\ UNCHANGED <<script, agg_out, counts, binVars, heatmapVars,
                 prepVars, callVars>>

CreateHeatmapMatrix03 ==
    /\ script = "analysis_03"
    /\ result = NoCall
    /\ result' = create_heatmap_matrix_03(counts)
    /\ UNCHANGED <<script, agg_out, counts, binVars, heatmapVars,
                 prepVars, callVars>>

NextGrid ==
    \/ CreateHeatmapMatrix01
    \/ CreateHeatmapMatrix03

SpecGrid == InitGrid /\ [][NextGrid]_vars

-----------------------------------------------------------------------------
(* analysis_01.py: the pipeline of analyze_heatmap (SpecHeatmap).          *)
(* A timestamp string is kept as what it parses to: [ok, day, hour] with   *)
(* day the number of days since 1970-01-01, or [ok |-> FALSE] when         *)
(* to_datetime(strict=False) cannot parse it.  A nullable integer is a set *)
(* of at most one element; the null string is NullStr.                    *)

MaxRides == 2

NullStr == "<null>"

UserTable ==
    <<[user_id |-> "u1", user_type |-> "staff"],
      [user_id |-> "u2", user_type |-> "student"]>>

DayInputs == 19723 .. 19729   \* 2024-01-01 (a Monday) .. 2024-01-07 (a Sunday)

StartedAtInputs ==
    {[ok |-> TRUE, day |-> d, hour |-> 13] : d \in DayInputs}
        \cup {[ok |-> TRUE, day |-> 19723, hour |-> 0],
              [ok |-> TRUE, day |-> 19729, hour |-> 23],
              [ok |-> FALSE]}

RideInputs ==
    {[user_id |-> u, started_at |-> t] :
        u \in {"u1", "u2", "u9"}, t \in StartedAtInputs}

(* parse_datetime_columns: started_at_dt, null when unparseable *)
parse_datetime_columns(df) ==
    [i \in 1 .. Len(df) |->
        [user_id |-> df[i].user_id,
         started_at_dt |-> IF df[i].started_at.ok THEN {df[i].started_at} ELSE {}]]

(* join_user_info: history.join(user, on="user_id", how="left") *)
join_user_info(df, user) ==
    [i \in 1 .. Len(df) |->
        [user_id |-> df[i].user_id,
         started_at_dt |-> df[i].started_at_dt,
         user_type |->
            IF \E k \in 1 .. Len(user) : user[k].user_id = df[i].user_id
            THEN user[CHOOSE k \in 1 .. Len(user) :
                          user[k].user_id = df[i].user_id].user_type
            ELSE NullStr]]

(* dt.weekday(): the ISO weekday, Monday = 1 .. Sunday = 7 (1970-01-01    *)
(* was a Thursday).                                                         *)
Weekday(day) == ((day + 3) % 7) + 1

(* add_time_features: dow and hour, null where started_at_dt is null *)
add_time_features(df) ==
    [i \in 1 .. Len(df) |->
        [user_type |-> df[i].user_type,
         dow |-> {Weekday(t.day) : t \in df[i].started_at_dt},
         hour |-> {t.hour : t \in df[i].started_at_dt}]]

(* drop_nulls(["user_type", "dow", "hour"]) *)
drop_nulls(df) ==
    LET kept == SelectSeq(df, LAMBDA r :
                    r.user_type # NullStr /\ r.dow # {} /\ r.hour # {})
    IN [i \in 1 .. Len(kept) |->
          [user_type |-> kept[i].user_type,
           dow |-> CHOOSE d \in kept[i].dow : TRUE,
           hour |-> CHOOSE h \in kept[i].hour : TRUE]]

preprocess_for_heatmap(hist, user) ==
    drop_nulls(add_time_features(join_user_info(parse_datetime_columns(hist), user)))

(* AggregateUngrouped is the variant that counts every row on its own.   *)
AggregateUngrouped(df) ==
    [i \in 1 .. Len(df) |->
        [user_type |-> df[i].user_type,
         dow |-> df[i].dow,
         hour |-> df[i].hour,
         ride_count |-> 1]]

(* aggregate_by_user_type_dow_hour: group_by(...).len(), the groups in    *)
(* order of first appearance (group_by itself promises no order: see      *)
(* GroupOrders)                                                            *)
aggregate_by_user_type_dow_hour(df) ==
    LET keys == Distinct(df)
    IN [g \in 1 .. Len(keys) |->
          [user_type |-> keys[g].user_type,
           dow |-> keys[g].dow,
           hour |-> keys[g].hour,
           ride_count |-> Cardinality({i \in 1 .. Len(df) : df[i] = keys[g]})]]

Reverse(s) == [i \in 1 .. Len(s) |-> s[Len(s) + 1 - i]]

GroupOrders(agg) == {agg, Reverse(agg)}

(* TotalOfTypeInGrid is the variant that totals only the rows that fall   *)
(* in the 7 x 24 grid.                                                     *)
TotalOfTypeInGrid(agg, user_type) ==
    SumSeq([i \in 1 .. Len(agg) |->
               IF /\ agg[i].user_type = user_type
                  /\ agg[i].dow \in 0 .. NDow - 1
                  /\ agg[i].hour \in 0 .. NHour - 1
               THEN agg[i].ride_count ELSE 0])

TotalOfType(agg, user_type) ==
    SumSeq([i \in 1 .. Len(agg) |->
               IF agg[i].user_type = user_type THEN agg[i].ride_count ELSE 0])

(* calculate_share_within_type: ride_count / total of the row's user_type *)
calculate_share_within_type(agg) ==
    [i \in 1 .. Len(agg) |->
        [user_type |-> agg[i].user_type,
         dow |-> agg[i].dow,
         hour |-> agg[i].hour,
         ride_count |-> agg[i].ride_count,
         share |-> Frac(agg[i].ride_count, TotalOfType(agg, agg[i].user_type))]]

(* plot_heatmap: the tick labels of the rows and of the columns; row i   *)
(* of the matrix is drawn at tick i.                                       *)
dow_labels == <<"Mon", "Tue", "Wed", "Thu", "Fri", "Sat", "Sun">>

hour_labels == [h \in 1 .. NHour |-> CastUtf8(h - 1)]

InitHeatmap ==
    /\ script = "analysis_01"
    /\ history \in UNION {[1 .. n -> RideInputs] : n \in 0 .. MaxRides}
    /\ agg_out = <<>>
    /\ counts = <<>>
    /\ result = NoCall
    /\ mat_staff = <<>>
    /\ mat_student = <<>>
    /\ value = 0
    /\ threshold = DefaultThreshold
    /\ site = "none"
    /\ label = NoLabel
    /\ trip = <<>>
    /\ prep_df = <<>>
    /\ prep_pc = "idle"
    /\ call_pc = <<>>
    /\ call_local = <<>>

(* analyze_heatmap up to the two matrices handed to plot_heatmap *)
AnalyzeHeatmap ==
    /\ result = NoCall
    /\ \E agg \in GroupOrders(aggregate_by_user_type_dow_hour(
                                  preprocess_for_heatmap(history, UserTable))) :
         /\ agg_out' = calculate_share_within_type(agg)
         /\ mat_staff' = create_heatmap_matrix(agg_out', "staff")
         /\ mat_student' = create_heatmap_matrix(agg_out', "student")
    /\ result' = [status |-> "analyzed"]
    /\ UNCHANGED <<script, history, counts, binVars, prepVars, callVars>>

NextHeatmap ==
    \/ AnalyzeHeatmap

SpecHeatmap == InitHeatmap /\ [][NextHeatmap]_vars

-----------------------------------------------------------------------------
(* The preprocessing functions of analysis_02.py and analysis_03.py, run   *)
(* statement by statement, and the analyses built on them (SpecPrep).      *)
(* A cell of a numeric CSV column is a number, a text that is not a        *)
(* number, or null; a column holding such a text is a String column.  A    *)
(* timestamp string is kept as the minute it parses to, or as unparseable. *)
(* Distances are kept as integers.                                         *)

MaxPrepRides == 2

NumCell(n) == [kind |-> "num", v |-> n]
TextCell == [kind |-> "text"]
NullCell == [kind |-> "null"]
At(m) == [ok |-> TRUE, min |-> m]
Unparseable == [ok |-> FALSE]

GoodRide ==
    [history_id |-> 0, user_id |-> "u1", started_at |-> At(600),
     ended_at |-> At(630), distance |-> NumCell(3), passengers_count |-> NumCell(2)]

PrepRideInputs ==
    {GoodRide,
     [GoodRide EXCEPT !.user_id = "u2", !.distance = NumCell(7),
                      !.passengers_count = NumCell(5)],
     [GoodRide EXCEPT !.user_id = "u2", !.passengers_count = NumCell(7)],
     [GoodRide EXCEPT !.passengers_count = NumCell(1)],
     [GoodRide EXCEPT !.user_id = "u9"],
     [GoodRide EXCEPT !.started_at = Unparseable],
     [GoodRide EXCEPT !.ended_at = Unparseable],
     [GoodRide EXCEPT !.ended_at = At(600)],
     [GoodRide EXCEPT !.distance = TextCell],
     [GoodRide EXCEPT !.distance = NullCell],
     [GoodRide EXCEPT !.distance = NumCell(0 - 1)],
     [GoodRide EXCEPT !.distance = NumCell(0)],
     [GoodRide EXCEPT !.passengers_count = TextCell],
     [GoodRide EXCEPT !.passengers_count = NullCell],
     [GoodRide EXCEPT !.passengers_count = NumCell(0)],
     [GoodRide EXCEPT !.passengers_count = NumCell(0 - 1)]}

(* history_id is the row's position in the table *)
WithHistoryIds(t) == [i \in 1 .. Len(t) |-> [t[i] EXCEPT !.history_id = i]]

HistoryInputs ==
    {WithHistoryIds(t) :
        t \in UNION {[1 .. n -> PrepRideInputs] : n \in 0 .. MaxPrepRides}}

TripOf(ids) == [k \in 1 .. Len(ids) |-> [history_id |-> ids[k]]]

TripInputs ==
    {TripOf(<<>>), TripOf(<<1, 2>>), TripOf(<<1, 1, 1, 1, 1, 2, 2>>),
     TripOf(<<2, 9>>)}

UserTypeOf(user, user_id) ==
    IF \E k \in 1 .. Len(user) : user[k].user_id = user_id
    THEN user[CHOOSE k \in 1 .. Len(user) : user[k].user_id = user_id].user_type
    ELSE NullStr

(* A column read from CSV holds strings when one of its cells is a text *)
IsStringColumn(cells) == \E i \in 1 .. Len(cells) : cells[i].kind = "text"

(* cast(pl.Float64, strict=False): null where the cell is no number *)
cast_distance_column(cell) == IF cell.kind = "num" THEN {cell.v} ELSE {}

cast_distance_to_float(cell) == IF cell.kind = "num" THEN {cell.v} ELSE {}

(* str.to_datetime(strict=False), str.strptime(pl.Datetime, strict=False) *)
ToDatetime(cell) == IF cell.ok THEN {cell.min} ELSE {}

(* (ended - started).dt.total_minutes(), null when either side is null *)
calculate_duration(started_dt, ended_dt) ==
    {e - s : s \in started_dt, e \in ended_dt}

add_duration_column(started_dt, ended_dt) ==
    {e - s : s \in started_dt, e \in ended_dt}

(* analysis_02.preprocess_for_boxplot, lines 94-97 *)
BoxplotColumns(hist, user) ==
    [i \in 1 .. Len(hist) |->
        [user_type |-> UserTypeOf(user, hist[i].user_id),
         distance_f |-> cast_distance_column(hist[i].distance),
         duration_min |-> calculate_duration(ToDatetime(hist[i].started_at),
                                             ToDatetime(hist[i].ended_at))]]

(* drop_nulls(["user_type", "distance_f", "duration_min"]) *)
BoxplotDropNulls(rows) ==
    SelectSeq(rows, LAMBDA r :
        r.user_type # NullStr /\ r.distance_f # {} /\ r.duration_min # {})

(* filter((duration_min > 0) & (distance_f >= 0)) *)
BoxplotFilter(rows) ==
    SelectSeq(rows, LAMBDA r :
        (\E m \in r.duration_min : m > 0) /\ (\E d \in r.distance_f : d >= 0))

(* analysis_02.preprocess_for_passengers_analysis, lines 118-123: the     *)
(* cast of passengers_count is strict and raises on a text cell.          *)
PassengersColumns(hist, user) ==
    IF IsStringColumn([i \in 1 .. Len(hist) |-> hist[i].passengers_count])
    THEN [status |-> "InvalidOperationError"]
    ELSE [status |-> "ok",
          rows |-> [i \in 1 .. Len(hist) |->
                      [user_type |-> UserTypeOf(user, hist[i].user_id),
                       passengers_count |->
                          IF hist[i].passengers_count.kind = "num"
                          THEN {hist[i].passengers_count.v} ELSE {},
                       distance |-> cast_distance_column(hist[i].distance)]]]

(* lines 124-130 *)
PassengersFilter(rows) ==
    SelectSeq(rows, LAMBDA r :
        /\ r.user_type # NullStr
        /\ r.passengers_count # {}
        /\ r.distance # {}
        /\ \E p \in r.passengers_count : p >= 1
        /\ \E d \in r.distance : d > 0)

(* lines 131-136 *)
AddPassengersCat(rows) ==
    [i \in 1 .. Len(rows) |->
        [user_type |-> rows[i].user_type,
         passengers_count |-> rows[i].passengers_count,
         distance |-> rows[i].distance,
         passengers_cat |->
            IF rows[i].passengers_count = {} THEN NullStr
            ELSE passengers_cat(CHOOSE p \in rows[i].passengers_count : TRUE)]]

(* transform.count_spots_per_history: one row per history_id of trip *)
count_spots_per_history(trip_rows) ==
    LET ids == Distinct([k \in 1 .. Len(trip_rows) |-> trip_rows[k].history_id])
    IN [g \in 1 .. Len(ids) |->
          [history_id |-> ids[g],
           spots_n |-> Cardinality({k \in 1 .. Len(trip_rows) :
                                       trip_rows[k].history_id = ids[g]})]]

(* the left join on history_id, then fill_null(0) *)
SpotsNOf(trip_counts, history_id) ==
    IF \E g \in 1 .. Len(trip_counts) : trip_counts[g].history_id = history_id
    THEN trip_counts[CHOOSE g \in 1 .. Len(trip_counts) :
                        trip_counts[g].history_id = history_id].spots_n
    ELSE 0

(* analysis_03.build_ride_features, lines 64-79: passengers_count is left *)
(* as it was read.                                                         *)
RideColumns(hist, trip_rows, user) ==
    LET trip_counts == count_spots_per_history(trip_rows)
    IN [i \in 1 .. Len(hist) |->
          [user_type |-> UserTypeOf(user, hist[i].user_id),
           spots_n |-> SpotsNOf(trip_counts, hist[i].history_id),
           distance |-> cast_distance_to_float(hist[i].distance),
           passengers_count |-> hist[i].passengers_count,
           duration_min |-> add_duration_column(ToDatetime(hist[i].started_at),
                                                ToDatetime(hist[i].ended_at)),
           spots_bin |-> NullStr,
           passengers_bin |-> NullStr]]

(* transform.add_bin_columns on the frame: comparing a String column with *)
(* the threshold raises; a null count gets a null bin.                    *)
add_bin_columns(rows) ==
    IF IsStringColumn([i \in 1 .. Len(rows) |-> rows[i].passengers_count])
    THEN [status |-> "ComputeError"]
    ELSE [status |-> "ok",
          rows |-> [i \in 1 .. Len(rows) |->
                      [rows[i] EXCEPT
                          !.spots_bin = add_spots_bin(rows[i].spots_n, DefaultThreshold),
                          !.passengers_bin =
                              IF rows[i].passengers_count.kind = "num"
                              THEN add_passengers_bin(rows[i].passengers_count.v,
                                                      DefaultThreshold)
                              ELSE NullStr]]]

(* filter((spots_n >= 1) & (passengers_count >= 1)); RideFilterNone is   *)
(* the variant that keeps every row.                                       *)
RideFilterNone(rows) == rows

RideFilter(rows) ==
    SelectSeq(rows, LAMBDA r :
        /\ r.spots_n >= 1
        /\ r.passengers_count.kind = "num"
        /\ r.passengers_count.v >= 1)

(* drop_nulls(["user_type", "distance", "passengers_count", "spots_bin",  *)
(* "passengers_bin"])                                                      *)
RideDropNulls(rows) ==
    SelectSeq(rows, LAMBDA r :
        /\ r.user_type # NullStr
        /\ r.distance # {}
        /\ r.passengers_count.kind # "null"
        /\ r.spots_bin # NullStr
        /\ r.passengers_bin # NullStr)

(* analysis_03.aggregate_passengers_spots_counts: group_by(...).len() *)
aggregate_passengers_spots_counts(rows) ==
    LET keys == Distinct([i \in 1 .. Len(rows) |->
                             [passengers_bin |-> rows[i].passengers_bin,
                              spots_bin |-> rows[i].spots_bin]])
    IN [g \in 1 .. Len(keys) |->
          [passengers_bin |-> keys[g].passengers_bin,
           spots_bin |-> keys[g].spots_bin,
           n |-> Cardinality({i \in 1 .. Len(rows) :
                                 /\ rows[i].passengers_bin = keys[g].passengers_bin
                                 /\ rows[i].spots_bin = keys[g].spots_bin})]]

(* The three functions as a whole: the frame returned or the exception *)
preprocess_for_boxplot(hist, user) ==
    [status |-> "ok",
     rows |-> BoxplotFilter(BoxplotDropNulls(BoxplotColumns(hist, user)))]

preprocess_for_passengers_analysis(hist, user) ==
    LET out == PassengersColumns(hist, user)
    IN IF out.status # "ok" THEN out
       ELSE [status |-> "ok", rows |-> AddPassengersCat(PassengersFilter(out.rows))]

build_ride_features(hist, trip_rows, user) ==
    LET out == add_bin_columns(RideColumns(hist, trip_rows, user))
    IN IF out.status # "ok" THEN out
       ELSE [status |-> "ok", rows |-> RideDropNulls(RideFilter(out.rows))]

(* The values of a column in the rows kept by a filter *)
ValuesWhere(rows, Keep(_), Val(_)) ==
    LET kept == SelectSeq(rows, Keep)
    IN [i \in 1 .. Len(kept) |-> Val(kept[i])]

(* analysis_02.plot_boxplot_by_user_type: always draws both boxes *)
plot_boxplot_by_user_type(rows, value_col) ==
    [kind |-> "boxplot",
     value_col |-> value_col,
     labels |-> <<"staff", "student">>,
     data |-> [u \in 1 .. 2 |->
                 ValuesWhere(rows,
                     LAMBDA r : r.user_type = <<"staff", "student">>[u],
                     LAMBDA r : IF value_col = "distance_f"
                                THEN r.distance_f ELSE r.duration_min)]]

(* PlotEveryCategory is the variant of the function below that appends   *)
(* every category of cat_order, with or without data.                     *)
PlotEveryCategory(rows, user_type) ==
    LET cat_order == <<"1", "2", "3", "4", "5+">>
        arr(c) == ValuesWhere(rows,
                      LAMBDA r : r.user_type = user_type /\ r.passengers_cat = c,
                      LAMBDA r : r.distance)
    IN IF \A k \in 1 .. Len(cat_order) : Len(arr(cat_order[k])) = 0
       THEN [kind |-> "print", user_type |-> user_type]
       ELSE [kind |-> "boxplot",
             user_type |-> user_type,
             labels |-> cat_order,
             data |-> [k \in 1 .. Len(cat_order) |-> arr(cat_order[k])]]

(* analysis_02.plot_distance_boxplot_by_passengers: the boxes of the      *)
(* categories that have data, or the diagnostic when there is none.       *)
plot_distance_boxplot_by_passengers(rows, user_type) ==
    LET cat_order == <<"1", "2", "3", "4", "5+">>
        arr(c) == ValuesWhere(rows,
                      LAMBDA r : r.user_type = user_type /\ r.passengers_cat = c,
                      LAMBDA r : r.distance)
        labels == SelectSeq(cat_order, LAMBDA c : Len(arr(c)) > 0)
    IN IF Len(labels) = 0
       THEN [kind |-> "print", user_type |-> user_type]
       ELSE [kind |-> "boxplot",
             user_type |-> user_type,
             labels |-> labels,
             data |-> [k \in 1 .. Len(labels) |-> arr(labels[k])]]

(* sorted(df.select("user_type").unique()...) *)
SortedUserTypes(rows) ==
    SelectSeq(<<"staff", "student">>,
              LAMBDA u : \E i \in 1 .. Len(rows) : rows[i].user_type = u)

Plots(outs) == SelectSeq(outs, LAMBDA o : o.kind # "print")
Printed(outs) == SelectSeq(outs, LAMBDA o : o.kind = "print")

InitPrep ==
    /\ \/ /\ script = "preprocess_for_boxplot"
          /\ trip = <<>>
       \/ /\ script = "preprocess_for_passengers_analysis"
          /\ trip = <<>>
       \/ /\ script = "build_ride_features"
          /\ trip \in TripInputs
    /\ history \in HistoryInputs
    /\ prep_df = <<>>
    /\ prep_pc = "start"
    /\ result = NoCall
    /\ agg_out = <<>>
    /\ counts = <<>>
    /\ mat_staff = <<>>
    /\ mat_student = <<>>
    /\ value = 0
    /\ threshold = DefaultThreshold
    /\ site = "none"
    /\ label = NoLabel
    /\ call_pc = <<>>
    /\ call_local = <<>>

(* preprocess_for_boxplot *)
PreprocessForBoxplot_Columns ==
    /\ script = "preprocess_for_boxplot"
    /\ prep_pc = "start"
    /\ prep_df' = BoxplotColumns(history, UserTable)
    /\ prep_pc' = "columns"
    /\ UNCHANGED <<gridVars, binVars, heatmapVars, trip, callVars>>

PreprocessForBoxplot_DropNulls ==
    /\ script = "preprocess_for_boxplot"
    /\ prep_pc = "columns"
    /\ prep_df' = BoxplotDropNulls(prep_df)
    /\ prep_pc' = "no_nulls"
    /\ UNCHANGED <<gridVars, binVars, heatmapVars, trip, callVars>>

PreprocessForBoxplot_Filter ==
    /\ script = "preprocess_for_boxplot"
    /\ prep_pc = "no_nulls"
    /\ prep_df' = BoxplotFilter(prep_df)
    /\ prep_pc' = "done"
    /\ UNCHANGED <<gridVars, binVars, heatmapVars, trip, callVars>>

(* analyze_boxplot_by_user_type after the preprocessing *)
AnalyzeBoxplotByUserType ==
    /\ script = "preprocess_for_boxplot"
    /\ prep_pc = "done"
    /\ result' = [status |-> "analyzed",
                  outputs |-> <<plot_boxplot_by_user_type(prep_df, "distance_f"),
                                plot_boxplot_by_user_type(prep_df, "duration_min")>>]
    /\ prep_pc' = "analyzed"
    /\ UNCHANGED <<script, agg_out, counts, binVars, heatmapVars, trip, prep_df,
                   callVars>>

(* preprocess_for_passengers_analysis *)
PreprocessForPassengers_Columns ==
    /\ script = "preprocess_for_passengers_analysis"
    /\ prep_pc = "start"
    /\ LET out == PassengersColumns(history, UserTable)
       IN IF out.status = "ok"
          THEN /\ prep_df' = out.rows
               /\ prep_pc' = "columns"
               /\ UNCHANGED result
          ELSE /\ result' = [status |-> out.status]
               /\ prep_pc' = "raised"
               /\ UNCHANGED prep_df
    /\ UNCHANGED <<script, agg_out, counts, binVars, heatmapVars, trip, callVars>>

PreprocessForPassengers_Filter ==
    /\ script = "preprocess_for_passengers_analysis"
    /\ prep_pc = "columns"
    /\ prep_df' = PassengersFilter(prep_df)
    /\ prep_pc' = "filtered"
    /\ UNCHANGED <<gridVars, binVars, heatmapVars, trip, callVars>>

PreprocessForPassengers_Cat ==
    /\ script = "preprocess_for_passengers_analysis"
    /\ prep_pc = "filtered"
    /\ prep_df' = AddPassengersCat(prep_df)
    /\ prep_pc' = "done"
    /\ UNCHANGED <<gridVars, binVars, heatmapVars, trip, callVars>>

(* analyze_distance_by_passengers after the preprocessing: the scatter,   *)
(* then one boxplot per user type present in df                           *)
AnalyzeDistanceByPassengers ==
    /\ script = "preprocess_for_passengers_analysis"
    /\ prep_pc = "done"
    /\ LET uts == SortedUserTypes(prep_df)
       IN result' = [status |-> "analyzed",
                     outputs |-> <<[kind |-> "scatter"]>> \o
                        [k \in 1 .. Len(uts) |->
                            plot_distance_boxplot_by_passengers(prep_df, uts[k])]]
    /\ prep_pc' = "analyzed"
    /\ UNCHANGED <<script, agg_out, counts, binVars, heatmapVars, trip, prep_df,
                   callVars>>

(* build_ride_features *)
BuildRideFeatures_Columns ==
    /\ script = "build_ride_features"
    /\ prep_pc = "start"
    /\ prep_df' = RideColumns(history, trip, UserTable)
    /\ prep_pc' = "columns"
    /\ UNCHANGED <<gridVars, binVars, heatmapVars, trip, callVars>>

BuildRideFeatures_AddBinColumns ==
    /\ script = "build_ride_features"
    /\ prep_pc = "columns"
    /\ LET out == add_bin_columns(prep_df)
       IN IF out.status = "ok"
          THEN /\ prep_df' = out.rows
               /\ prep_pc' = "binned"
               /\ UNCHANGED result
          ELSE /\ result' = [status |-> out.status]
               /\ prep_pc' = "raised"
               /\ UNCHANGED prep_df
    /\ UNCHANGED <<script, agg_out, counts, binVars, heatmapVars, trip, callVars>>

BuildRideFeatures_Filter ==
    /\ script = "build_ride_features"
    /\ prep_pc = "binned"
    /\ prep_df' = RideFilter(prep_df)
    /\ prep_pc' = "filtered"
    /\ UNCHANGED <<gridVars, binVars, heatmapVars, trip, callVars>>

BuildRideFeatures_DropNulls ==
    /\ script = "build_ride_features"
    /\ prep_pc = "filtered"
    /\ prep_df' = RideDropNulls(prep_df)
    /\ prep_pc' = "done"
    /\ UNCHANGED <<gridVars, binVars, heatmapVars, trip, callVars>>

(* analyze_passengers_vs_spots on the frame of build_ride_features *)
AnalyzePassengersVsSpots ==
    /\ script = "build_ride_features"
    /\ prep_pc = "done"
    /\ \E cnts \in GroupOrders(aggregate_passengers_spots_counts(prep_df)) :
         /\ counts' = cnts
         /\ LET built == create_heatmap_matrix_03(cnts)
            IN result' = IF built.status = "ok"
                         THEN [status |-> "analyzed",
                               mat_counts |-> built.mat_counts,
                               mat |-> built.mat,
                               outputs |-> <<[kind |-> "heatmap"]>>]
                         ELSE [status |-> built.status]
    /\ prep_pc' = "analyzed"
    /\ UNCHANGED <<script, agg_out, binVars, heatmapVars, trip, prep_df, callVars>>

NextPrep ==
    \/ PreprocessForBoxplot_Columns
    \/ PreprocessForBoxplot_DropNulls
    \/ PreprocessForBoxplot_Filter
    \/ AnalyzeBoxplotByUserType
    \/ PreprocessForPassengers_Columns
    \/ PreprocessForPassengers_Filter
    \/ PreprocessForPassengers_Cat
    \/ AnalyzeDistanceByPassengers
    \/ BuildRideFeatures_Columns
    \/ BuildRideFeatures_AddBinColumns
    \/ BuildRideFeatures_Filter
    \/ BuildRideFeatures_DropNulls
    \/ AnalyzePassengersVsSpots

SpecPrep == InitPrep /\ [][NextPrep]_vars

-----------------------------------------------------------------------------
(* Two calls of analysis_01.create_heatmap_matrix on one aggregate table, *)
(* one per user type, run statement by statement in any interleaving      *)
(* (SpecCalls).  Each call has its own locals grid, filtered and filled;  *)
(* agg_out is the table both calls were handed.                           *)

MaxCallRows == 2

Callers == {"staff", "student"}

CallRowInputs == {r \in AggRowInputs : r.hour = 13}

NoLocals == [grid |-> <<>>, filtered |-> <<>>, filled |-> <<>>]

(* DataFrame.filter returns a new frame: the receiver is left as it was.  *)
(* FilterReceiverInPlace is the variant that filters the receiver itself. *)
FilterReceiverInPlace(agg, user_type) == FilterUserType(agg, user_type)

FilterReceiver(agg, user_type) == agg

(* grid.join(filtered, on=["dow", "hour"], how="left"), fill_null(0.0),    *)
(* sort(["dow", "hour"]): one row per joined key, ascending               *)
JoinFillSort(grid, filtered) ==
    LET keys == JoinKeys(grid, filtered)
        dows == SortedSeq({k[1] : k \in keys})
        hours == SortedSeq({k[2] : k \in keys})
    IN [k \in 1 .. Len(dows) * Len(hours) |->
          [dow |-> dows[((k - 1) \div Len(hours)) + 1],
           hour |-> hours[((k - 1) % Len(hours)) + 1],
           share |-> JoinedValue(filtered,
                                 dows[((k - 1) \div Len(hours)) + 1],
                                 hours[((k - 1) % Len(hours)) + 1])]]

(* pivot(index="dow", on="hour").sort("dow").drop("dow").to_numpy() *)
PivotToNumpy(filled) ==
    LET dows == SortedSeq({filled[k].dow : k \in 1 .. Len(filled)})
        hours == SortedSeq({filled[k].hour : k \in 1 .. Len(filled)})
    IN [i \in 1 .. Len(dows) |->
          [j \in 1 .. Len(hours) |->
             filled[CHOOSE k \in 1 .. Len(filled) :
                       filled[k].dow = dows[i] /\ filled[k].hour = hours[j]].share]]

InitCalls ==
    /\ script = "analysis_01"
    /\ agg_out \in DistinctSeqs(CallRowInputs, MaxCallRows)
    /\ call_pc = [c \in Callers |-> "start"]
    /\ call_local = [c \in Callers |-> NoLocals]
    /\ mat_staff = <<>>
    /\ mat_student = <<>>
    /\ counts = <<>>
    /\ result = NoCall
    /\ history = <<>>
    /\ trip = <<>>
    /\ prep_df = <<>>
    /\ prep_pc = "idle"
    /\ value = 0
    /\ threshold = DefaultThreshold
    /\ site = "none"
    /\ label = NoLabel

(* grid = create_dow_hour_grid() *)
Call_Grid ==
    /\ \E c \in Callers :
         /\ call_pc[c] = "start"
         /\ call_local' = [call_local EXCEPT ![c].grid = create_dow_hour_grid]
         /\ call_pc' = [call_pc EXCEPT ![c] = "grid"]
    /\ UNCHANGED <<gridVars, binVars, heatmapVars, prepVars>>

(* filtered = agg_out.filter(pl.col("user_type") == user_type).select(...) *)
Call_Filter ==
    /\ \E c \in Callers :
         /\ call_pc[c] = "grid"
         /\ call_local' = [call_local EXCEPT ![c].filtered = FilterUserType(agg_out, c)]
         /\ agg_out' = FilterReceiver(agg_out, c)
         /\ call_pc' = [call_pc EXCEPT ![c] = "filtered"]
    /\ UNCHANGED <<script, counts, result, binVars, heatmapVars, prepVars>>

(* filled = grid.join(filtered, ...).with_columns(...).sort(...) *)
Call_Fill ==
    /\ \E c \in Callers :
         /\ call_pc[c] = "filtered"
         /\ call_local' = [call_local EXCEPT
                              ![c].filled = JoinFillSort(call_local[c].grid,
                                                         call_local[c].filtered)]
         /\ call_pc' = [call_pc EXCEPT ![c] = "filled"]
    /\ UNCHANGED <<gridVars, binVars, heatmapVars, prepVars>>

(* pivoted = filled.pivot(...).sort("dow"); return pivoted.drop("dow").to_numpy() *)
Call_Return ==
    /\ \E c \in Callers :
         /\ call_pc[c] = "filled"
         /\ IF c = "staff"
            THEN /\ mat_staff' = PivotToNumpy(call_local[c].filled)
                 /\ UNCHANGED mat_student
            ELSE /\ mat_student' = PivotToNumpy(call_local[c].filled)
                 /\ UNCHANGED mat_staff
         /\ call_pc' = [call_pc EXCEPT ![c] = "returned"]
    /\ UNCHANGED <<gridVars, binVars, history, prepVars, call_local>>

NextCalls ==
    \/ Call_Grid
    \/ Call_Filter
    \/ Call_Fill
    \/ Call_Return

SpecCalls == InitCalls /\ [][NextCalls]_vars

-----------------------------------------------------------------------------
(* analysis_02.plot_distance_boxplot_by_passengers called on preprocessed *)
(* frames, for user types present in the frame or not (SpecPlot).         *)

MaxPlotRows == 3

PlotRowInputs ==
    {[user_type |-> u, passengers_count |-> {c}, distance |-> {d},
      passengers_cat |-> passengers_cat(c)] :
        u \in {"staff", "student"}, c \in {1, 3, 6}, d \in {3, 7}}

PlotUserTypeArgs == {"staff", "student", "guest"}

InitPlot ==
    /\ script = "plot_distance_boxplot_by_passengers"
    /\ prep_df \in UNION {[1 .. n -> PlotRowInputs] : n \in 0 .. MaxPlotRows}
    /\ prep_pc = "done"
    /\ result = NoCall
    /\ agg_out = <<>>
    /\ counts = <<>>
    /\ history = <<>>
    /\ trip = <<>>
    /\ mat_staff = <<>>
    /\ mat_student = <<>>
    /\ value = 0
    /\ threshold = DefaultThreshold
    /\ site = "none"
    /\ label = NoLabel
    /\ call_pc = <<>>
    /\ call_local = <<>>

PlotDistanceBoxplotByPassengers ==
    /\ script = "plot_distance_boxplot_by_passengers"
    /\ result = NoCall
    /\ \E user_type \in PlotUserTypeArgs :
         result' = [status |-> "ok",
                    user_type |-> user_type,
                    out |-> plot_distance_boxplot_by_passengers(prep_df, user_type)]
    /\ UNCHANGED <<script, agg_out, counts, binVars, heatmapVars, prepVars, callVars>>

NextPlot ==
    \/ PlotDistanceBoxplotByPassengers

SpecPlot == InitPlot /\ [][NextPlot]_vars

-----------------------------------------------------------------------------
(* The two aggregations applied to preprocessed tables (SpecAgg); the     *)
(* tables may repeat a key, as ride tables do.                            *)

MaxGroupRows == 3

DowHourRowInputs ==
    {[user_type |-> u, dow |-> d, hour |-> h] :
        u \in {"staff", "student"}, d \in {1, 7}, h \in {0, 13}}

BinRowInputs ==
    {[passengers_bin |-> p, spots_bin |-> c] :
        p \in {"1", "5+"}, c \in {"1", "2", "5+"}}

InitAgg ==
    /\ \/ /\ script = "aggregate_by_user_type_dow_hour"
          /\ prep_df \in UNION {[1 .. n -> DowHourRowInputs] : n \in 0 .. MaxGroupRows}
       \/ /\ script = "aggregate_passengers_spots_counts"
          /\ prep_df \in UNION {[1 .. n -> BinRowInputs] : n \in 0 .. MaxGroupRows}
    /\ prep_pc = "start"
    /\ agg_out = <<>>
    /\ counts = <<>>
    /\ result = NoCall
    /\ history = <<>>
    /\ trip = <<>>
    /\ mat_staff = <<>>
    /\ mat_student = <<>>
    /\ value = 0
    /\ threshold = DefaultThreshold
    /\ site = "none"
    /\ label = NoLabel
    /\ call_pc = <<>>
    /\ call_local = <<>>

AggregateByUserTypeDowHour ==
    /\ script = "aggregate_by_user_type_dow_hour"
    /\ prep_pc = "start"
    /\ agg_out' \in GroupOrders(aggregate_by_user_type_dow_hour(prep_df))
    /\ prep_pc' = "aggregated"
    /\ UNCHANGED <<script, counts, result, binVars, heatmapVars, trip, prep_df,
                   callVars>>

AggregatePassengersSpotsCounts ==
    /\ script = "aggregate_passengers_spots_counts"
    /\ prep_pc = "start"
    /\ counts' \in GroupOrders(aggregate_passengers_spots_counts(prep_df))
    /\ prep_pc' = "aggregated"
    /\ UNCHANGED <<script, agg_out, result, binVars, heatmapVars, trip, prep_df,
                   callVars>>

NextAgg ==
    \/ AggregateByUserTypeDowHour
    \/ AggregatePassengersSpotsCounts

SpecAgg == InitAgg /\ [][NextAgg]_vars

-----------------------------------------------------------------------------
(* Claims about the bin assigner (checked under SpecBin) *)

ExpectedDecimal(n) ==
    CASE n = 0 - 3 -> "-3" [] n = 0 - 2 -> "-2" [] n = 0 - 1 -> "-1"
      [] n = 100 -> "100"
      [] OTHER -> <<"0", "1", "2", "3", "4", "5", "6", "7", "8", "9", "10",
                    "11", "12", "13", "14", "15", "16">>[n + 1]

ExpectedSentinel(t) ==
    <<"1+", "2+", "3+", "4+", "5+", "6+", "7+", "8+", "9+">>[t]

\* C6: every binning expression labels value >= threshold with "{threshold}+"
\* and any other value with its decimal string (4 -> "4", 5 -> "5+",
\* 100 -> "5+" at threshold 5).
C6_BinAssignment ==
    label # NoLabel =>
        label = IF value >= threshold
                THEN ExpectedSentinel(threshold)
                ELSE ExpectedDecimal(value)

C6_Witness ==
    /\ site = "add_passengers_bin"
    /\ threshold = 5
    /\ value = 100
    /\ label = "5+"

\* C7: with threshold 5 every count >= 1 gets a label of the declared
\* universe ["1","2","3","4","5+"].
C7_UniverseClosed ==
    (label # NoLabel /\ value >= 1 /\ threshold = DefaultThreshold) =>
        /\ site = "add_spots_bin" => label \in Range(SPOTS_BINS)
        /\ site \in {"add_passengers_bin", "passengers_cat"} =>
               label \in Range(PASSENGERS_BINS)

C7_Witness ==
    /\ site = "add_spots_bin"
    /\ threshold = DefaultThreshold
    /\ value = 7
    /\ label = "5+"

\* C16: handed a count below 1, a binning expression fails (an
\* InvalidValueError) and returns no label for it.
C16_RejectsBelowOne ==
    (site # "none" /\ value < 1) => label = NoLabel

-----------------------------------------------------------------------------
(* Claims about the matrix builders (checked under SpecGrid) *)

Called01 == script = "analysis_01" /\ result.status # "none"
Called03 == script = "analysis_03" /\ result.status # "none"

DowUniverse == 0 .. NDow - 1
HourUniverse == 0 .. NHour - 1

RowInUniverse01(r) == r.dow \in DowUniverse /\ r.hour \in HourUniverse
RowInUniverse03(r) ==
    r.passengers_bin \in Range(PASSENGERS_BINS) /\ r.spots_bin \in Range(SPOTS_BINS)

InUniverse01(agg) == \A k \in 1 .. Len(agg) : RowInUniverse01(agg[k])
InUniverse03(cnts) == \A k \in 1 .. Len(cnts) : RowInUniverse03(cnts[k])

RemoveAt(s, k) == [i \in 1 .. Len(s) - 1 |-> IF i < k THEN s[i] ELSE s[i + 1]]

SwapAt(s, k) ==
    [i \in 1 .. Len(s) |-> IF i = k THEN s[k + 1] ELSE IF i = k + 1 THEN s[k] ELSE s[i]]

(* The dense grid of the specification: the value of the row keyed        *)
(* (row_universe[i], col_universe[j]) if there is one, else 0.            *)
ExpectedShare(agg, user_type, dow, hour) ==
    IF \E k \in 1 .. Len(agg) :
          agg[k].user_type = user_type /\ agg[k].dow = dow /\ agg[k].hour = hour
    THEN agg[CHOOSE k \in 1 .. Len(agg) :
                agg[k].user_type = user_type /\ agg[k].dow = dow
                    /\ agg[k].hour = hour].share
    ELSE Zero

ExpectedCount(cnts, p, c) ==
    IF \E k \in 1 .. Len(cnts) : cnts[k].passengers_bin = p /\ cnts[k].spots_bin = c
    THEN cnts[CHOOSE k \in 1 .. Len(cnts) :
                 cnts[k].passengers_bin = p /\ cnts[k].spots_bin = c].n
    ELSE 0

DenseGrid01(mat, agg, user_type) ==
    /\ Len(mat) = NDow
    /\ \A i \in DowUniverse :
          /\ Len(mat[i + 1]) = NHour
          /\ \A j \in HourUniverse :
                mat[i + 1][j + 1] = ExpectedShare(agg, user_type, i, j)

DenseGrid03(mat_counts, cnts) ==
    /\ Len(mat_counts) = Len(PASSENGERS_BINS)
    /\ \A i \in 1 .. Len(PASSENGERS_BINS) :
          /\ Len(mat_counts[i]) = Len(SPOTS_BINS)
          /\ \A j \in 1 .. Len(SPOTS_BINS) :
                mat_counts[i][j] = ExpectedCount(cnts, PASSENGERS_BINS[i], SPOTS_BINS[j])

AllCells(mat, v) ==
    \A i \in 1 .. Len(mat) : \A j \in 1 .. Len(mat[i]) : mat[i][j] = v

\* C1: for a sparse aggregate with unique keys drawn from the universes,
\* both builders return the dense grid: cell [i][j] is the value of the row
\* keyed (row_universe[i], col_universe[j]) if there is one, and 0 otherwise.
C1_DenseGridCells ==
    /\ (Called01 /\ InUniverse01(agg_out)) =>
          /\ result.status = "ok"
          /\ DenseGrid01(result.mat, agg_out, result.user_type)
    /\ (Called03 /\ InUniverse03(counts)) =>
          /\ result.status = "ok"
          /\ DenseGrid03(result.mat_counts, counts)

\* C3: the day-of-week/hour builder returns a 7 x 24 matrix for every
\* aggregate table and every user type, all 0.0 when the aggregate has no
\* row of that user type.
C3_Shape01 ==
    Called01 =>
        /\ result.status = "ok"
        /\ Len(result.mat) = 7
        /\ \A i \in 1 .. Len(result.mat) : Len(result.mat[i]) = 24
        /\ (\A k \in 1 .. Len(agg_out) : agg_out[k].user_type # result.user_type)
               => AllCells(result.mat, Zero)

C3_Witness ==
    /\ Called01
    /\ Len(agg_out) = 2
    /\ \A k \in 1 .. Len(agg_out) : agg_out[k].user_type = "staff"
    /\ result.user_type = "student"
    /\ Len(result.mat) = 7
    /\ AllCells(result.mat, Zero)

\* C4: the passengers/destinations builder completes without error and
\* returns a 5 x 5 matrix for every counts table over PASSENGERS_BINS x
\* SPOTS_BINS, however many bins are absent, all zero for the empty table.
C4_Shape03 ==
    (Called03 /\ InUniverse03(counts)) =>
        /\ result.status = "ok"
        /\ Len(result.mat) = 5
        /\ \A i \in 1 .. Len(result.mat) : Len(result.mat[i]) = 5
        /\ counts = <<>> => AllCells(result.mat, Zero)

\* C5: two aggregate tables holding the same rows in different orders give
\* the identical matrix from each builder, its rows and columns in the
\* order of the declared universes.
C5_UniverseOrder ==
    /\ Called01 =>
          /\ \A k \in 1 .. Len(agg_out) - 1 :
                create_heatmap_matrix(SwapAt(agg_out, k), result.user_type) = result.mat
          /\ InUniverse01(agg_out) =>
                DenseGrid01(result.mat, agg_out, result.user_type)
    /\ (Called03 /\ InUniverse03(counts)) =>
          /\ result.status = "ok"
          /\ \A k \in 1 .. Len(counts) - 1 :
                create_heatmap_matrix_03(SwapAt(counts, k)) = result
          /\ DenseGrid03(result.mat_counts, counts)

\* C8: grid building fails with an InvalidCategoryError, and returns no
\* grid, whenever a row or column category of the aggregate is outside the
\* declared universe.
C8_FailFast ==
    /\ (Called01 /\ ~InUniverse01(agg_out)) => result.status = "InvalidCategoryError"
    /\ (Called03 /\ ~InUniverse03(counts)) => result.status = "InvalidCategoryError"

\* C9 as stated: in both builders a row with a category outside the
\* universe raises no error and is discarded: the matrix is the one built
\* from the aggregate with that row removed.
C9_SilentDropBoth ==
    /\ Called01 =>
          \A k \in 1 .. Len(agg_out) :
              ~RowInUniverse01(agg_out[k]) =>
                  /\ result.status = "ok"
                  /\ result.mat =
                        create_heatmap_matrix(RemoveAt(agg_out, k), result.user_type)
    /\ Called03 =>
          \A k \in 1 .. Len(counts) :
              ~RowInUniverse03(counts[k]) =>
                  /\ result.status = "ok"
                  /\ result = create_heatmap_matrix_03(RemoveAt(counts, k))

InUniverseRows03(cnts) == SelectSeq(cnts, RowInUniverse03)

\* C9 as amended: the 7 x 24 builder drops a row whose dow or hour is
\* outside the universe without an error (the matrix is the one built
\* without the row); the 5 x 5 builder raises when a row's passengers_bin is
\* outside PASSENGERS_BINS, and whenever it returns a matrix the rows whose
\* spots_bin is outside SPOTS_BINS are in no cell and not in the total.
C9_SilentDrop ==
    /\ Called01 =>
          /\ result.status = "ok"
          /\ \A k \in 1 .. Len(agg_out) :
                ~RowInUniverse01(agg_out[k]) =>
                    result.mat =
                        create_heatmap_matrix(RemoveAt(agg_out, k), result.user_type)
    /\ Called03 =>
          /\ (\E k \in 1 .. Len(counts) :
                 counts[k].passengers_bin \notin Range(PASSENGERS_BINS))
                => result.status \in {"ShapeError", "SchemaError", "ValueError"}
          /\ result.status = "ok" =>
                /\ DenseGrid03(result.mat_counts, InUniverseRows03(counts))
                /\ MatTotal(result.mat_counts) =
                      SumSeq([k \in 1 .. Len(InUniverseRows03(counts)) |->
                                 InUniverseRows03(counts)[k].n])

C9_Witness ==
    /\ Called01
    /\ result.status = "ok"
    /\ \E k \in 1 .. Len(agg_out) :
          /\ agg_out[k].dow = 7
          /\ agg_out[k].user_type = result.user_type
    /\ \E k \in 1 .. Len(agg_out) :
          /\ RowInUniverse01(agg_out[k])
          /\ agg_out[k].user_type = result.user_type

MatFracSum(mat) == FracSumSeq([i \in 1 .. Len(mat) |-> FracSumSeq(mat[i])])

\* C10: when the total of the 5 x 5 count matrix is positive, every cell of
\* the matrix returned is its count divided by the total, and the 25 cells
\* sum to 1.
C10_GlobalShare ==
    (Called03 /\ result.status = "ok") =>
        (MatTotal(result.mat_counts) > 0 =>
            /\ Len(result.mat) = 5
            /\ \A i \in 1 .. 5 :
                  /\ Len(result.mat[i]) = 5
                  /\ \A j \in 1 .. 5 :
                        result.mat[i][j].num * MatTotal(result.mat_counts)
                            = result.mat_counts[i][j] * result.mat[i][j].den
            /\ MatFracSum(result.mat) = One)

C10_Witness ==
    /\ Called03
    /\ result.status = "ok"
    /\ MatTotal(result.mat_counts) = 11
    /\ result.mat[1][1] = Frac(3, 11)
    /\ result.mat[5][3] = Frac(4, 11)

SameShape(a, b) ==
    /\ Len(a) = Len(b)
    /\ \A i \in 1 .. Len(a) : Len(a[i]) = Len(b[i])

\* C11: when the count matrix handed to the global normalisation is all
\* zero (total = 0), the step divides nothing and raises nothing: the
\* matrix returned has the shape of the count matrix and every cell is 0.
C11_ZeroTotal ==
    (Called03 /\ result.status = "ok" /\ MatTotal(result.mat_counts) = 0) =>
        /\ SameShape(result.mat, result.mat_counts)
        /\ AllCells(result.mat, Zero)

C11_Witness ==
    /\ Called03
    /\ Len(counts) = 5
    /\ result.status = "ok"
    /\ Len(result.mat_counts) = 5
    /\ AllCells(result.mat_counts, 0)
    /\ AllCells(result.mat, Zero)

InUnitInterval(x) == x.den > 0 /\ 0 <= x.num /\ x.num <= x.den

AllCellsInUnitInterval(mat) ==
    \A i \in 1 .. Len(mat) : \A j \in 1 .. Len(mat[i]) : InUnitInterval(mat[i][j])

CountsTotal(cnts) == SumSeq([k \in 1 .. Len(cnts) |-> cnts[k].n])

\* C13: every cell of a share matrix lies in [0, 1]; the 7 x 24 matrix of
\* a user type without rows is all 0, and the 5 x 5 matrix is returned for
\* every counts table over the bin universes, all 0 when the table is empty
\* (total = 0).
C13_ShareRange ==
    /\ Called01 =>
          /\ AllCellsInUnitInterval(result.mat)
          /\ (\A k \in 1 .. Len(agg_out) : agg_out[k].user_type # result.user_type)
                 => AllCells(result.mat, Zero)
    /\ (Called03 /\ InUniverse03(counts)) =>
          /\ result.status = "ok"
          /\ AllCellsInUnitInterval(result.mat)
          /\ CountsTotal(counts) = 0 => AllCells(result.mat, Zero)

-----------------------------------------------------------------------------
(* Claims about the analyze_heatmap pipeline (checked under SpecHeatmap) *)

SingleOneAt(mat, dow, hour) ==
    /\ dow \in DowUniverse
    /\ hour \in HourUniverse
    /\ Len(mat) = NDow
    /\ \A i \in DowUniverse :
          /\ Len(mat[i + 1]) = NHour
          /\ \A j \in HourUniverse :
                mat[i + 1][j + 1] = IF i = dow /\ j = hour THEN One ELSE Zero

AllZero01(mat) ==
    /\ Len(mat) = NDow
    /\ \A i \in 1 .. NDow : Len(mat[i]) = NHour
    /\ AllCells(mat, Zero)

\* C2: the 7 x 24 grid built from exactly one observation has a single 1 at
\* [dow][hour] of that observation, for every (dow, hour) add_time_features
\* produces, and 0 in every other cell; built from no observation it is
\* all zero.
C2_SingleObservation ==
    result.status = "analyzed" =>
        LET df == preprocess_for_heatmap(history, UserTable)
        IN /\ Len(df) = 0 => AllZero01(mat_staff) /\ AllZero01(mat_student)
           /\ Len(df) = 1 =>
                 IF df[1].user_type = "staff"
                 THEN SingleOneAt(mat_staff, df[1].dow, df[1].hour)
                         /\ AllZero01(mat_student)
                 ELSE SingleOneAt(mat_student, df[1].dow, df[1].hour)
                         /\ AllZero01(mat_staff)

RideCount(rides, user_type, dow, hour) ==
    Cardinality({i \in 1 .. Len(rides) :
                    /\ rides[i].user_type = user_type
                    /\ rides[i].dow = dow
                    /\ rides[i].hour = hour})

RidesOfType(rides, user_type) ==
    Cardinality({i \in 1 .. Len(rides) : rides[i].user_type = user_type})

PerGroupShare(mat, rides, user_type) ==
    /\ Len(mat) = NDow
    /\ \A d \in DowUniverse :
          /\ Len(mat[d + 1]) = NHour
          /\ \A h \in HourUniverse :
                mat[d + 1][h + 1] =
                    IF RideCount(rides, user_type, d, h) = 0 THEN Zero
                    ELSE Frac(RideCount(rides, user_type, d, h),
                              RidesOfType(rides, user_type))

\* C12: in analyze_heatmap every cell of a user type's matrix is the ride
\* count of (user_type, dow, hour) divided by the number of all preprocessed
\* rides of that user type (the total over the aggregate before the grid is
\* built), not by the sum over the cells of the 7 x 24 grid.
C12_PerGroupShare ==
    result.status = "analyzed" =>
        LET rides == preprocess_for_heatmap(history, UserTable)
        IN /\ PerGroupShare(mat_staff, rides, "staff")
           /\ PerGroupShare(mat_student, rides, "student")

C12_Witness ==
    /\ result.status = "analyzed"
    /\ \E k \in 1 .. Len(agg_out) :
          agg_out[k].user_type = "staff" /\ agg_out[k].dow = 7
    /\ mat_staff[2][14] = Frac(1, 2)
    /\ MatFracSum(mat_staff) = Frac(1, 2)

MatOfType(user_type) ==
    IF user_type = "staff" THEN mat_staff ELSE mat_student

\* C21: no ride is lost when the grid is built: for every user type with at
\* least one ride kept by preprocess_for_heatmap, the cells of that type's
\* 7 x 24 share matrix sum to exactly 1.
C21_NoRideLost ==
    result.status = "analyzed" =>
        LET rides == preprocess_for_heatmap(history, UserTable)
        IN \A u \in {"staff", "student"} :
              RidesOfType(rides, u) >= 1 => MatFracSum(MatOfType(u)) = One

(* The calendar weekday of a day number (1970-01-01 was a Thursday) *)
WeekdayName(day) ==
    <<"Thu", "Fri", "Sat", "Sun", "Mon", "Tue", "Wed">>[(day % 7) + 1]

KeptRide(r) == r.started_at.ok /\ UserTypeOf(UserTable, r.user_id) # NullStr

\* C22: for every ride of a history, the matrix cell that holds the ride's
\* share is in the row plot_heatmap labels with the ride's weekday and in
\* the column it labels with the ride's start hour.
C22_RowLabels ==
    (result.status = "analyzed" /\ Len(history) = 1 /\ KeptRide(history[1])) =>
        LET mat == MatOfType(UserTypeOf(UserTable, history[1].user_id))
        IN \A i \in 1 .. Len(mat) : \A j \in 1 .. Len(mat[i]) :
              mat[i][j] # Zero <=>
                  /\ dow_labels[i] = WeekdayName(history[1].started_at.day)
                  /\ hour_labels[j] = CastUtf8(history[1].started_at.hour)

-----------------------------------------------------------------------------
(* Claims about the preprocessing functions (checked under SpecPrep) *)

PrepReturned == prep_pc \in {"done", "analyzed"}
PrepRaised == prep_pc = "raised"

(* A row with a data-quality error: a null field, an unparseable          *)
(* timestamp, a distance or a passengers_count that is no number.         *)
Offending(r) ==
    \/ UserTypeOf(UserTable, r.user_id) = NullStr
    \/ ~r.started_at.ok
    \/ ~r.ended_at.ok
    \/ r.distance.kind # "num"
    \/ r.passengers_count.kind # "num"

WithoutOffending(hist) == SelectSeq(hist, LAMBDA r : ~Offending(r))

PrepOutcomeOn(hist) ==
    CASE script = "preprocess_for_boxplot" ->
            preprocess_for_boxplot(hist, UserTable)
      [] script = "preprocess_for_passengers_analysis" ->
            preprocess_for_passengers_analysis(hist, UserTable)
      [] script = "build_ride_features" ->
            build_ride_features(hist, trip, UserTable)

\* C14: a row with a null field, an unparseable timestamp, a non-numeric
\* distance or a non-numeric passengers_count never makes a preprocessing
\* function raise: the function returns, and its frame is the one it
\* returns for the history without the offending rows.
C14_DropsBadRows ==
    /\ ~PrepRaised
    /\ prep_pc = "done" =>
          /\ PrepOutcomeOn(WithoutOffending(history)).status = "ok"
          /\ prep_df = PrepOutcomeOn(WithoutOffending(history)).rows

NoRowsOf(rows, user_type) ==
    \A i \in 1 .. Len(rows) : rows[i].user_type # user_type

\* C15: when no observation is left for a plot, the analysis raises
\* nothing, renders no plot for the empty subset and prints a diagnostic
\* in its place.
C15_EmptySkipsRendering ==
    prep_pc = "analyzed" =>
        /\ result.status = "analyzed"
        /\ Len(prep_df) = 0 =>
              /\ Plots(result.outputs) = <<>>
              /\ Printed(result.outputs) # <<>>
        /\ script \in {"preprocess_for_boxplot",
                       "preprocess_for_passengers_analysis"} =>
              \A u \in {"staff", "student"} :
                  NoRowsOf(prep_df, u) =>
                      \E k \in 1 .. Len(result.outputs) :
                          result.outputs[k] = [kind |-> "print", user_type |-> u]

\* C17: at both call sites the >= 1 filter comes before the binning, so
\* no row ever carries a bin label computed from a count below 1.
C17_FilterBeforeBinning ==
    /\ script = "build_ride_features" =>
          \A i \in 1 .. Len(prep_df) :
              /\ prep_df[i].spots_bin # NullStr => prep_df[i].spots_n >= 1
              /\ prep_df[i].passengers_bin # NullStr =>
                    prep_df[i].passengers_count.v >= 1
    /\ (script = "preprocess_for_passengers_analysis"
            /\ prep_pc \in {"done", "analyzed"}) =>
          \A i \in 1 .. Len(prep_df) :
              prep_df[i].passengers_cat # NullStr =>
                  \A c \in prep_df[i].passengers_count : c >= 1

\* C18: every row a preprocessing function hands to aggregation or
\* plotting has a non-negative distance, a passengers_count >= 1 where the
\* analysis uses it, and a non-negative spots_n.
C18_DataModel ==
    PrepReturned =>
        \A i \in 1 .. Len(prep_df) :
            CASE script = "preprocess_for_boxplot" ->
                    \A d \in prep_df[i].distance_f : d >= 0
              [] script = "preprocess_for_passengers_analysis" ->
                    /\ \A d \in prep_df[i].distance : d >= 0
                    /\ \A c \in prep_df[i].passengers_count : c >= 1
              [] script = "build_ride_features" ->
                    /\ \A d \in prep_df[i].distance : d >= 0
                    /\ prep_df[i].passengers_count.kind = "num"
                    /\ prep_df[i].passengers_count.v >= 1
                    /\ prep_df[i].spots_n >= 0

-----------------------------------------------------------------------------
(* Claims about the aggregations (checked under SpecAgg) *)

\* C20: each aggregation returns at most one row per grouping key, every
\* count is >= 1, and the counts sum to the number of input rows.
C20_SparseAggregate ==
    prep_pc = "aggregated" =>
        /\ script = "aggregate_by_user_type_dow_hour" =>
              /\ \A a, b \in 1 .. Len(agg_out) :
                    (/\ agg_out[a].user_type = agg_out[b].user_type
                     /\ agg_out[a].dow = agg_out[b].dow
                     /\ agg_out[a].hour = agg_out[b].hour) => a = b
              /\ \A a \in 1 .. Len(agg_out) : agg_out[a].ride_count >= 1
              /\ SumSeq([a \in 1 .. Len(agg_out) |-> agg_out[a].ride_count])
                    = Len(prep_df)
        /\ script = "aggregate_passengers_spots_counts" =>
              /\ \A a, b \in 1 .. Len(counts) :
                    (/\ counts[a].passengers_bin = counts[b].passengers_bin
                     /\ counts[a].spots_bin = counts[b].spots_bin) => a = b
              /\ \A a \in 1 .. Len(counts) : counts[a].n >= 1
              /\ CountsTotal(counts) = Len(prep_df)

C20_Witness ==
    /\ prep_pc = "aggregated"
    /\ script = "aggregate_by_user_type_dow_hour"
    /\ Len(prep_df) = 3
    /\ prep_df[1] = prep_df[3]
    /\ prep_df[1] # prep_df[2]
    /\ Len(agg_out) = 2
    /\ \E a \in 1 .. 2 : agg_out[a].ride_count = 2

-----------------------------------------------------------------------------
(* Claims about interleaved builder calls (checked under SpecCalls) *)

ReturnedAsAlone ==
    /\ call_pc["staff"] = "returned" =>
          mat_staff = create_heatmap_matrix(agg_out, "staff")
    /\ call_pc["student"] = "returned" =>
          mat_student = create_heatmap_matrix(agg_out, "student")

\* C19: the calls of create_heatmap_matrix for "staff" and for "student"
\* on one aggregate table, in either order or interleaved statement by
\* statement, each return the matrix the call returns when run alone, and
\* no statement of a call changes the aggregate table.
C19_IndependentCalls ==
    [](ReturnedAsAlone) /\ [][agg_out' = agg_out]_vars

C19_Witness ==
    /\ call_pc["student"] = "returned"
    /\ call_pc["staff"] = "filtered"
    /\ \E k \in 1 .. Len(agg_out) : agg_out[k].user_type = "staff"
    /\ \E i \in 1 .. NDow : \E j \in 1 .. NHour : mat_student[i][j] # Zero

-----------------------------------------------------------------------------
(* Claims about the per-category box plot (checked under SpecPlot) *)

CatOrder == <<"1", "2", "3", "4", "5+">>

(* The positions in the frame of the rows of a user type and a category *)
RowsOfCat(rows, user_type, cat) ==
    {i \in 1 .. Len(rows) :
        rows[i].user_type = user_type /\ rows[i].passengers_cat = cat}

(* data_k holds the distances of the rows at the positions in S, in row order *)
HoldsDistancesOf(data_k, rows, S) ==
    /\ Len(data_k) = Cardinality(S)
    /\ \A n \in 1 .. Len(data_k) :
          \E i \in S :
              /\ Cardinality({m \in S : m <= i}) = n
              /\ data_k[n] = rows[i].distance

\* C24: the labels of the box plot are the categories of
\* ["1","2","3","4","5+"] that have an observation for the user type, in
\* that order; data and labels have equal length; data[k] holds exactly the
\* distances of category labels[k] and is never empty; with no data at all
\* the function prints the "No data" message and plots nothing.
C24_AlignedLabels ==
    result.status = "ok" =>
        LET u == result.user_type
            has == {c \in Range(CatOrder) : RowsOfCat(prep_df, u, c) # {}}
        IN IF has = {}
           THEN result.out = [kind |-> "print", user_type |-> u]
           ELSE /\ result.out.kind = "boxplot"
                /\ Range(result.out.labels) = has
                /\ Len(result.out.labels) = Cardinality(has)
                /\ \A a, b \in 1 .. Len(result.out.labels) :
                      a < b => IndexOf(CatOrder, result.out.labels[a])
                                  < IndexOf(CatOrder, result.out.labels[b])
                /\ Len(result.out.data) = Len(result.out.labels)
                /\ \A k \in 1 .. Len(result.out.data) :
                      /\ Len(result.out.data[k]) >= 1
                      /\ HoldsDistancesOf(result.out.data[k], prep_df,
                                          RowsOfCat(prep_df, u, result.out.labels[k]))

C24_Witness ==
    /\ result.status = "ok"
    /\ result.user_type = "staff"
    /\ Len(prep_df) = 3
    /\ \E i \in 1 .. 3 : prep_df[i].user_type = "student"
    /\ result.out.kind = "boxplot"
    /\ result.out.labels = <<"1", "5+">>
    /\ result.out.data = <<<<{7}>>, <<{3}>>>>

C24_WitnessNoData ==
    /\ result.status = "ok"
    /\ Len(prep_df) = 2
    /\ result.out = [kind |-> "print", user_type |-> "student"]

====
